---- MODULE Spec2Model ----
(***************************************************************************)
(* Model of the two scripts of the repository:                             *)
(*   - calculator.py: the four arithmetic functions add, subtract,         *)
(*     multiply, divide and the command-line entry point main;             *)
(*   - generate_inference_model.py: the template exporter.                 *)
(*                                                                         *)
(* Strings that the code inspects character by character (the command-line *)
(* arguments: lower-cased, parsed by float) are sequences of one-character *)
(* strings.  Python floats are modelled by the records built by Fin, Inf   *)
(* and NaN below.                                                          *)
(***************************************************************************)
EXTENDS Integers, Sequences, FiniteSets, TLC

(***************************************************************************)
(* Bounds of the model.                                                    *)
(***************************************************************************)
\* Longest number sequence handed directly to one of the four functions.
MaxLen == 3
\* Largest number of command-line arguments that follow the selector.
MaxArgs == 2
\* Longest rendered template (in tokens) the external formatter returns.
MaxTemplateLen == 3

(***************************************************************************)
(* Natural numbers of any size, for the arithmetic of the double format:   *)
(* a number is the sequence of its digits in base Base, the least          *)
(* significant first and the most significant not 0; <<>> is 0.            *)
(***************************************************************************)
Abs(n) == IF n < 0 THEN -n ELSE n

Sign(n) == IF n < 0 THEN -1 ELSE IF n > 0 THEN 1 ELSE 0

Min(a, b) == IF a < b THEN a ELSE b

Max(a, b) == IF a > b THEN a ELSE b

LimbBits == 15

Base == 32768

\* a without its most significant zeros
BTrim(a) ==
    IF \A i \in 1..Len(a) : a[i] = 0 THEN <<>>
    ELSE SubSeq(a, 1, CHOOSE i \in 1..Len(a) :
                        a[i] # 0 /\ \A j \in (i + 1)..Len(a) : a[j] = 0)

RECURSIVE BOfInt(_)
BOfInt(i) == IF i = 0 THEN <<>> ELSE <<i % Base>> \o BOfInt(i \div Base)

Limb(a, i) == IF i <= Len(a) THEN a[i] ELSE 0

Zeros(n) == [i \in 1..n |-> 0]

\* The digits lo..hi of a + b and the carry out of them, for a carry into
\* them; the range is halved so that the operators nest to a small depth.
RECURSIVE BAddRange(_, _, _, _, _)
BAddRange(a, b, lo, hi, carry) ==
    IF lo > hi THEN [d |-> <<>>, c |-> carry]
    ELSE IF lo = hi
    THEN LET t == Limb(a, lo) + Limb(b, lo) + carry
         IN  [d |-> <<t % Base>>, c |-> t \div Base]
    ELSE LET mid == (lo + hi) \div 2
             l == BAddRange(a, b, lo, mid, carry)
             h == BAddRange(a, b, mid + 1, hi, l.c)
         IN  [d |-> l.d \o h.d, c |-> h.c]

BAdd(a, b) ==
    LET r == BAddRange(a, b, 1, Max(Len(a), Len(b)), 0)
    IN  IF r.c = 0 THEN r.d ELSE Append(r.d, r.c)

\* The digits lo..hi of a - b and the borrow out of them.
RECURSIVE BSubRange(_, _, _, _, _)
BSubRange(a, b, lo, hi, borrow) ==
    IF lo > hi THEN [d |-> <<>>, c |-> borrow]
    ELSE IF lo = hi
    THEN LET t == a[lo] - Limb(b, lo) - borrow
         IN  IF t < 0 THEN [d |-> <<t + Base>>, c |-> 1]
             ELSE [d |-> <<t>>, c |-> 0]
    ELSE LET mid == (lo + hi) \div 2
             l == BSubRange(a, b, lo, mid, borrow)
             h == BSubRange(a, b, mid + 1, hi, l.c)
         IN  [d |-> l.d \o h.d, c |-> h.c]

\* a - b, for a >= b
BSub(a, b) == BTrim(BSubRange(a, b, 1, Len(a), 0).d)

\* -1, 0 or 1 as a < b, a = b or a > b
BCmp(a, b) ==
    IF Len(a) # Len(b) THEN (IF Len(a) < Len(b) THEN -1 ELSE 1)
    ELSE IF a = b THEN 0
    ELSE LET i == CHOOSE i \in 1..Len(a) :
                     a[i] # b[i] /\ \A j \in (i + 1)..Len(a) : a[j] = b[j]
         IN  IF a[i] < b[i] THEN -1 ELSE 1

\* The digits lo..hi of a * k and the carry out of them, for 0 < k <= Base.
RECURSIVE BMulSmallRange(_, _, _, _, _)
BMulSmallRange(a, k, lo, hi, carry) ==
    IF lo > hi THEN [d |-> <<>>, c |-> carry]
    ELSE IF lo = hi
    THEN LET t == a[lo] * k + carry
         IN  [d |-> <<t % Base>>, c |-> t \div Base]
    ELSE LET mid == (lo + hi) \div 2
             l == BMulSmallRange(a, k, lo, mid, carry)
             h == BMulSmallRange(a, k, mid + 1, hi, l.c)
         IN  [d |-> l.d \o h.d, c |-> h.c]

BMulSmall(a, k) ==
    IF k = 0 THEN <<>>
    ELSE LET r == BMulSmallRange(a, k, 1, Len(a), 0)
         IN  IF r.c = 0 THEN r.d ELSE Append(r.d, r.c)

\* a times the digits lo..hi of b at their weights, for a # 0
RECURSIVE BMulRange(_, _, _, _)
BMulRange(a, b, lo, hi) ==
    IF lo > hi THEN <<>>
    ELSE IF lo = hi
    THEN (IF b[lo] = 0 THEN <<>> ELSE Zeros(lo - 1) \o BMulSmall(a, b[lo]))
    ELSE LET mid == (lo + hi) \div 2
         IN  BAdd(BMulRange(a, b, lo, mid), BMulRange(a, b, mid + 1, hi))

BMul(a, b) == IF Len(a) = 0 THEN <<>> ELSE BMulRange(a, b, 1, Len(b))

\* a * 2^n
BShl(a, n) ==
    IF Len(a) = 0 THEN <<>>
    ELSE Zeros(n \div LimbBits) \o BMulSmall(a, 2 ^ (n % LimbBits))

\* a \div 2^n
BShr(a, n) ==
    LET q == n \div LimbBits
        p == 2 ^ (n % LimbBits)
    IN  IF Len(a) <= q THEN <<>>
        ELSE BTrim([i \in 1..(Len(a) - q) |->
                      (a[q + i] \div p) + (Limb(a, q + i + 1) % p) * (Base \div p)])

\* The number of binary digits of a.
BBitLen(a) ==
    IF Len(a) = 0 THEN 0
    ELSE LimbBits * (Len(a) - 1) +
         (CHOOSE n \in 1..LimbBits : 2 ^ (n - 1) <= a[Len(a)] /\ a[Len(a)] < 2 ^ n)

\* The binary digit of a of weight 2^n.
BBit(a, n) == (Limb(a, n \div LimbBits + 1) \div (2 ^ (n % LimbBits))) % 2

\* a % 2^n # 0
BLowNonZero(a, n) ==
    \/ \E i \in 1..Min(n \div LimbBits, Len(a)) : a[i] # 0
    \/ Limb(a, n \div LimbBits + 1) % (2 ^ (n % LimbBits)) # 0

\* Long division in base 2: the binary digits of weights 2^hi, ..., 2^lo of
\* the quotient of rem by d > 0 (as a number in units of 2^lo) and the
\* remainder left, for rem < d * 2^(hi + 1).
RECURSIVE BDivRange(_, _, _, _)
BDivRange(rem, d, hi, lo) ==
    IF hi < lo THEN [q |-> <<>>, r |-> rem]
    ELSE IF hi = lo
    THEN LET di == BShl(d, lo)
         IN  IF BCmp(rem, di) >= 0 THEN [q |-> <<1>>, r |-> BSub(rem, di)]
             ELSE [q |-> <<>>, r |-> rem]
    ELSE LET mid == (hi + lo) \div 2
             t == BDivRange(rem, d, hi, mid + 1)
             b == BDivRange(t.r, d, mid, lo)
         IN  [q |-> BAdd(BShl(t.q, mid - lo + 1), b.q), r |-> b.r]

\* The quotient q and the remainder r of n by d > 0.
BDivMod(n, d) == BDivRange(n, d, BBitLen(n) - BBitLen(d), 0)

(***************************************************************************)
(* Python float: an IEEE 754 binary64 number.  A finite float is           *)
(* s * m * 2^x with s the sign (1 or -1), m a natural below 2^MantBits and *)
(* MinExp <= x <= MaxExp; m has exactly MantBits binary digits unless      *)
(* x = MinExp (subnormal numbers), and the zeros 0.0 and -0.0 are m = 0    *)
(* with x = 0.  Every operation returns the float nearest to its exact     *)
(* result, the one with an even m when two are equally near, and inf       *)
(* beyond the largest float.  The model does not distinguish NaNs.         *)
(***************************************************************************)
MantBits == 53

MinExp == -1074

MaxExp == 971

NaN == [k |-> "nan", s |-> 1, m |-> <<>>, x |-> 0]

Inf(s) == [k |-> "inf", s |-> s, m |-> <<>>, x |-> 0]

\* 0.0
Zero == [k |-> "fin", s |-> 1, m |-> <<>>, x |-> 0]

\* 0.0 or -0.0
SignedZero(s) == [k |-> "fin", s |-> s, m |-> <<>>, x |-> 0]

\* The int 0 (the functions return it for an empty sequence, and sum starts
\* from it).
IntZero == [k |-> "int", s |-> 1, m |-> <<>>, x |-> 0]

\* The float s * m * 2^x, for m of at most MantBits digits (or 2^MantBits) and
\* x >= MinExp.
Fin(s, m, x) ==
    IF Len(m) = 0 THEN SignedZero(s)
    ELSE LET carried == BBitLen(m) > MantBits
             mm == IF carried THEN BShr(m, 1) ELSE m
             xx == IF carried THEN x + 1 ELSE x
         IN  IF xx > MaxExp THEN Inf(s)
             ELSE [k |-> "fin", s |-> s, m |-> mm, x |-> xx]

\* The float nearest to s * (n + f) * 2^x, where 0 <= f < 1 and f # 0 iff
\* sticky (a sticky n has more than MantBits + 1 digits): n is cut to MantBits
\* digits, not below the weight 2^MinExp, and rounded half to even.
Round(s, n, x, sticky) ==
    LET r == Max(x + BBitLen(n) - MantBits, MinExp)
        sh == r - x
    IN  IF sh <= 0 THEN Fin(s, BShl(n, -sh), r)
        ELSE LET kept == BShr(n, sh)
                 half == BBit(n, sh - 1) = 1
                 rest == sticky \/ BLowNonZero(n, sh - 1)
                 up == half /\ (rest \/ BBit(kept, 0) = 1)
             IN  Fin(s, IF up THEN BAdd(kept, <<1>>) ELSE kept, r)

\* float(i) for an int i
Int2Float(i) == Round(IF i < 0 THEN -1 ELSE 1, BOfInt(Abs(i)), 0, FALSE)

\* An operand of a float operation: an int is converted first.
AsFloat(a) == IF a.k = "int" THEN [a EXCEPT !.k = "fin"] ELSE a

\* Python: x == 0 for a number x.
IsZero(x) == x.k \in {"fin", "int"} /\ Len(x.m) = 0

FNeg(a) == IF a.k = "nan" THEN NaN ELSE [a EXCEPT !.s = -a.s]

\* Two finite floats whose exponents differ by more than this do not meet: the
\* smaller is below a quarter of the last digit of the larger.
Apart == 60

\* a + b for finite floats
FAddFin(a, b) ==
    IF Len(a.m) = 0 /\ Len(b.m) = 0 THEN SignedZero(IF a.s = b.s THEN a.s ELSE 1)
    ELSE IF Len(a.m) = 0 THEN b
    ELSE IF Len(b.m) = 0 THEN a
    ELSE IF a.x - b.x > Apart THEN a
    ELSE IF b.x - a.x > Apart THEN b
    ELSE LET x == Min(a.x, b.x)
             ma == BShl(a.m, a.x - x)
             mb == BShl(b.m, b.x - x)
             c == BCmp(ma, mb)
         IN  IF a.s = b.s THEN Round(a.s, BAdd(ma, mb), x, FALSE)
             ELSE IF c = 0 THEN Zero
             ELSE IF c > 0 THEN Round(a.s, BSub(ma, mb), x, FALSE)
             ELSE Round(b.s, BSub(mb, ma), x, FALSE)

\* Python: a + b on numbers, one of them a float.
FAdd(u, v) ==
    LET a == AsFloat(u)
        b == AsFloat(v)
    IN  IF a.k = "nan" \/ b.k = "nan" THEN NaN
        ELSE IF a.k = "inf" /\ b.k = "inf" THEN (IF a.s = b.s THEN a ELSE NaN)
        ELSE IF a.k = "inf" THEN a
        ELSE IF b.k = "inf" THEN b
        ELSE FAddFin(a, b)

\* Python: a - b on floats.
FSub(a, b) == FAdd(a, FNeg(b))

\* Python: a * b on floats.
FMul(a, b) ==
    IF a.k = "nan" \/ b.k = "nan" THEN NaN
    ELSE IF a.k = "inf" \/ b.k = "inf"
         THEN (IF IsZero(a) \/ IsZero(b) THEN NaN ELSE Inf(a.s * b.s))
    ELSE IF Len(a.m) = 0 \/ Len(b.m) = 0 THEN SignedZero(a.s * b.s)
    ELSE Round(a.s * b.s, BMul(a.m, b.m), a.x + b.x, FALSE)

\* The outcome of a / b when b == 0: Python raises ZeroDivisionError.
ZeroDiv == [k |-> "zerodiv", s |-> 1, m |-> <<>>, x |-> 0]

\* The digits of the quotient computed before rounding.
QuotBits == 56

\* a / b for finite floats, b # 0
FDivFin(a, b) ==
    IF Len(a.m) = 0 THEN SignedZero(a.s * b.s)
    ELSE LET sh == QuotBits + BBitLen(b.m) - BBitLen(a.m)
             qr == BDivMod(BShl(a.m, sh), b.m)
         IN  Round(a.s * b.s, qr.q, a.x - b.x - sh, Len(qr.r) # 0)

\* Python: a / b on floats.
FDiv(a, b) ==
    IF a.k = "zerodiv" \/ IsZero(b) THEN ZeroDiv
    ELSE IF a.k = "nan" \/ b.k = "nan" THEN NaN
    ELSE IF a.k = "inf" /\ b.k = "inf" THEN NaN
    ELSE IF a.k = "inf" THEN Inf(a.s * b.s)
    ELSE IF b.k = "inf" THEN SignedZero(a.s * b.s)
    ELSE FDivFin(a, b)

(***************************************************************************)
(* functools.reduce(f, numbers) for a non-empty sequence, f named by op:   *)
(* the accumulator starts as numbers[1] and takes f(acc, numbers[i]) for   *)
(* i = 2, 3, ...  The result records the value and how many times f was    *)
(* applied.                                                                *)
(***************************************************************************)
BinOp(op, a, b) ==
    CASE op = "sub" -> FSub(a, b)
      [] op = "mul" -> FMul(a, b)
      [] op = "div" -> FDiv(a, b)
      [] op = "add" -> FAdd(a, b)

RECURSIVE ReduceFrom(_, _, _, _)
ReduceFrom(op, acc, nums, i) ==
    IF i > Len(nums) THEN acc
    ELSE ReduceFrom(op, BinOp(op, acc, nums[i]), nums, i + 1)

reduce(op, nums) == ReduceFrom(op, nums[1], nums, 2)

\* A function's outcome: a returned value, or a raised exception; ops is the
\* number of arithmetic operations the call performed.
Return(v, nops) == [exc |-> "none", val |-> v, msg |-> "", ops |-> nops]

Raise(kind, text, nops) == [exc |-> kind, val |-> NaN, msg |-> text, ops |-> nops]

\* A reduce whose division hit a zero divisor raises ZeroDivisionError.
ReturnOf(v, nops) ==
    IF v.k = "zerodiv" THEN Raise("ZeroDivisionError", "float division by zero", 0)
    ELSE Return(v, nops)

\* Mutant of add: the first element is left out of the sum.
add_skips_first(nums) ==
    Return(ReduceFrom("add", IntZero, nums, 2), Len(nums))

\* sum(numbers) as CPython up to 3.11 computes it: starts from the int 0 and
\* adds the elements from left to right, rounding after each addition.  From
\* CPython 3.12 the sum of floats carries a compensation term, and the two
\* differ where a partial sum absorbs an addend (1e308 + 5.0 - 1e308 is 0.0
\* here and 5.0 there).  They agree whenever every partial sum is exact.
add(nums) == Return(ReduceFrom("add", IntZero, nums, 1), Len(nums))

\* Mutant of subtract: the fold associates to the right, a1 - (a2 - (a3 - ...)).
RECURSIVE RightFoldSub(_, _)
RightFoldSub(nums, i) ==
    IF i = Len(nums) THEN nums[i]
    ELSE FSub(nums[i], RightFoldSub(nums, i + 1))

subtract_right_fold(nums) ==
    IF Len(nums) = 0 THEN Return(IntZero, 0)
    ELSE Return(RightFoldSub(nums, 1), Len(nums) - 1)

subtract(nums) ==
    IF Len(nums) = 0 THEN Return(IntZero, 0)
    ELSE IF Len(nums) = 1 THEN Return(nums[1], 0)
    ELSE Return(reduce("sub", nums), Len(nums) - 1)

\* Mutant of multiply: the empty product is the multiplicative identity.
multiply_empty_one(nums) ==
    IF Len(nums) = 0 THEN Return(Int2Float(1), 0)
    ELSE Return(reduce("mul", nums), Len(nums) - 1)

multiply(nums) ==
    IF Len(nums) = 0 THEN Return(IntZero, 0)
    ELSE Return(reduce("mul", nums), Len(nums) - 1)

\* Mutant of divide: the zero check runs over every element, the first included.
divide_checks_first(nums) ==
    IF Len(nums) = 0 THEN Return(IntZero, 0)
    ELSE IF Len(nums) = 1 THEN Return(nums[1], 0)
    ELSE IF \E i \in 1..Len(nums) : IsZero(nums[i])
         THEN Raise("ValueError", "Division by zero is not allowed", 0)
    ELSE ReturnOf(reduce("div", nums), Len(nums) - 1)

divide(nums) ==
    IF Len(nums) = 0 THEN Return(IntZero, 0)
    ELSE IF Len(nums) = 1 THEN Return(nums[1], 0)
    ELSE IF \E i \in 2..Len(nums) : IsZero(nums[i])
         THEN Raise("ValueError", "Division by zero is not allowed", 0)
    ELSE ReturnOf(reduce("div", nums), Len(nums) - 1)

(***************************************************************************)
(* Strings of the command line, as sequences of characters.                *)
(***************************************************************************)
k_add == <<"a", "d", "d">>

k_subtract == <<"s", "u", "b", "t", "r", "a", "c", "t">>

k_multiply == <<"m", "u", "l", "t", "i", "p", "l", "y">>

k_divide == <<"d", "i", "v", "i", "d", "e">>

\* Mutant of operations: the key "subtract" is bound to add.
operations_subtract_is_add ==
    [key \in {k_add, k_subtract, k_multiply, k_divide} |->
        CASE key = k_add -> "add"
          [] key = k_subtract -> "add"
          [] key = k_multiply -> "multiply"
          [] key = k_divide -> "divide"]

\* The dispatch table of main: selector |-> function.
operations ==
    [key \in {k_add, k_subtract, k_multiply, k_divide} |->
        CASE key = k_add -> "add"
          [] key = k_subtract -> "subtract"
          [] key = k_multiply -> "multiply"
          [] key = k_divide -> "divide"]

\* The four functions of the module.
Functions == {"add", "subtract", "multiply", "divide"}

\* The call f(*numbers) of one of them.
Apply(f, nums) ==
    CASE f = "add" -> add(nums)
      [] f = "subtract" -> subtract(nums)
      [] f = "multiply" -> multiply(nums)
      [] f = "divide" -> divide(nums)

Uppers == <<"A", "B", "C", "D", "E", "F", "G", "H", "I", "J", "K", "L", "M",
            "N", "O", "P", "Q", "R", "S", "T", "U", "V", "W", "X", "Y", "Z">>

Lowers == <<"a", "b", "c", "d", "e", "f", "g", "h", "i", "j", "k", "l", "m",
            "n", "o", "p", "q", "r", "s", "t", "u", "v", "w", "x", "y", "z">>

LowerChar(c) ==
    IF \E i \in 1..Len(Uppers) : Uppers[i] = c
    THEN Lowers[CHOOSE i \in 1..Len(Uppers) : Uppers[i] = c]
    ELSE c

\* Mutant of Lower: the string is left as typed.
Lower_as_typed(s) == s

\* str.lower()
Lower(s) == [i \in 1..Len(s) |-> LowerChar(s[i])]

(***************************************************************************)
(* float(s) for a string s over ASCII letters, digits, "+", "-" and ".".   *)
(* (Python also accepts surrounding whitespace, "_" between digits and     *)
(* non-ASCII digits; such strings are not among the model's inputs.)       *)
(* Grammar: [sign] (inf | infinity | nan), any letter case, or             *)
(*          [sign] (digits [. [digits]] | . digits) [(e|E) [sign] digits]. *)
(* The value is the float nearest to the decimal number.                   *)
(***************************************************************************)
DigitSeq == <<"0", "1", "2", "3", "4", "5", "6", "7", "8", "9">>

IsDigit(c) == \E i \in 1..Len(DigitSeq) : DigitSeq[i] = c

DigitVal(c) == (CHOOSE i \in 1..Len(DigitSeq) : DigitSeq[i] = c) - 1

IsDigits(s) == \A i \in 1..Len(s) : IsDigit(s[i])

\* s without its leading zeros
Significant(s) ==
    IF \A i \in 1..Len(s) : s[i] = "0" THEN <<>>
    ELSE SubSeq(s, CHOOSE i \in 1..Len(s) :
                     s[i] # "0" /\ \A j \in 1..(i - 1) : s[j] = "0", Len(s))

RECURSIVE NatVal(_)
NatVal(s) ==
    IF Len(s) = 0 THEN 0
    ELSE 10 * NatVal(SubSeq(s, 1, Len(s) - 1)) + DigitVal(s[Len(s)])

\* Decimal exponents from this size on all give inf or 0 (the strings of the
\* model have far fewer digits than this).
ExpCap == 100000

\* The number an exponent's digits denote, cut at ExpCap.
ExpVal(s) ==
    IF Len(Significant(s)) > 5 THEN ExpCap ELSE NatVal(Significant(s))

\* 10^n
RECURSIVE BPow10(_)
BPow10(n) ==
    IF n = 0 THEN <<1>>
    ELSE LET h == BPow10(n \div 2)
         IN  BMulSmall(BMul(h, h), IF n % 2 = 1 THEN 10 ELSE 1)

\* The natural number a digit string denotes.
RECURSIVE BOfDigits(_)
BOfDigits(s) ==
    IF Len(s) = 0 THEN <<>>
    ELSE IF Len(s) = 1 THEN BOfInt(DigitVal(s[1]))
    ELSE LET h == Len(s) \div 2
         IN  BAdd(BMul(BOfDigits(SubSeq(s, 1, h)), BPow10(Len(s) - h)),
                  BOfDigits(SubSeq(s, h + 1, Len(s))))

\* The first index of s holding a character of cs, or 0.
IndexOf(s, cs) ==
    IF \E i \in 1..Len(s) : s[i] \in cs
    THEN CHOOSE i \in 1..Len(s) : s[i] \in cs /\ \A j \in 1..(i - 1) : s[j] \notin cs
    ELSE 0

StripSign(s) ==
    IF Len(s) > 0 /\ s[1] \in {"+", "-"}
    THEN [sign |-> IF s[1] = "-" THEN -1 ELSE 1, body |-> Tail(s)]
    ELSE [sign |-> 1, body |-> s]

\* The decimal orders of magnitude above which every number is beyond the
\* largest float (1.8e308) and below which every number is under half the
\* smallest one (4.9e-324).
MaxOrder == 309

MinOrder == -326

\* The float nearest to sgn * ds * 10^e10, for a digit string ds.
ToDouble(sgn, ds, e10) ==
    LET sig == Significant(ds)
        order == Len(sig) + e10 - 1
        d == BOfDigits(sig)
    IN  IF Len(sig) = 0 THEN SignedZero(sgn)
        ELSE IF order > MaxOrder THEN Inf(sgn)
        ELSE IF order < MinOrder THEN SignedZero(sgn)
        ELSE IF e10 >= 0 THEN Round(sgn, BMul(d, BPow10(e10)), 0, FALSE)
        ELSE LET den == BPow10(-e10)
                 sh == Max(0, QuotBits + BBitLen(den) - BBitLen(d))
                 qr == BDivMod(BShl(d, sh), den)
             IN  Round(sgn, qr.q, -sh, Len(qr.r) # 0)

Parsed(v) == [ok |-> TRUE, val |-> v]

\* float(s) raised ValueError.
NotAFloat == [ok |-> FALSE, val |-> NaN]

float(s) ==
    LET sg == StripSign(s)
        low == Lower(sg.body)
        ei == IndexOf(sg.body, {"e", "E"})
        mant == IF ei = 0 THEN sg.body ELSE SubSeq(sg.body, 1, ei - 1)
        expo == IF ei = 0 THEN <<>> ELSE SubSeq(sg.body, ei + 1, Len(sg.body))
        di == IndexOf(mant, {"."})
        ip == IF di = 0 THEN mant ELSE SubSeq(mant, 1, di - 1)
        fp == IF di = 0 THEN <<>> ELSE SubSeq(mant, di + 1, Len(mant))
        es == StripSign(expo)
    IN  IF low \in {<<"i", "n", "f">>, <<"i", "n", "f", "i", "n", "i", "t", "y">>}
        THEN Parsed(Inf(sg.sign))
        ELSE IF low = <<"n", "a", "n">> THEN Parsed(NaN)
        ELSE IF ~(IsDigits(ip) /\ IsDigits(fp) /\ Len(ip) + Len(fp) >= 1)
        THEN NotAFloat
        ELSE IF ei # 0 /\ ~(Len(es.body) >= 1 /\ IsDigits(es.body))
        THEN NotAFloat
        ELSE Parsed(ToDouble(sg.sign, ip \o fp,
                             es.sign * ExpVal(es.body) - Len(fp)))

(***************************************************************************)
(* What main prints: a line is a fixed text, plus the interpolated text of *)
(* an exception (detail), the interpolated string (str) or the printed     *)
(* number (num).                                                           *)
(***************************************************************************)
Line(t) == [text |-> t, detail |-> "", str |-> <<>>, num |-> NaN]

LineE(t, e) == [text |-> t, detail |-> e, str |-> <<>>, num |-> NaN]

LineS(t, e, s) == [text |-> t, detail |-> e, str |-> s, num |-> NaN]

\* print(result)
LineN(v) == [text |-> "", detail |-> "", str |-> <<>>, num |-> v]

(***************************************************************************)
(* State.                                                                  *)
(***************************************************************************)
VARIABLES
    fn,        \* direct call: the function called
    args,      \* direct call: its number sequence
    result,    \* direct call: its outcome, or NotCalled
    argv,      \* calculator process: sys.argv (argv[1] is the program name)
    pc,        \* calculator process: the statement of main to execute next
    operation, \* main: the lower-cased selector
    numbers,   \* main: the parsed numbers
    invoked,   \* calculator process: the functions called so far, in order
    stdout,    \* process: the lines printed so far
    stderr,    \* process: the lines on the error stream (an uncaught exception)
    exitCode,  \* process: the exit status, or Running
    tokenizer, \* exporter: the loaded tokenizer, or Unset
    template,  \* exporter: the rendered prompt, or Unset
    json_template, \* exporter: the record to write, or Unset
    fs,        \* exporter: the file system, path -> content
    fsOps,     \* exporter: the file operations performed so far, in order
    extCalls   \* exporter: the calls of the tokenizer library so far, in order

calcVars == <<argv, pc, operation, numbers, invoked, exitCode>>

fnVars == <<fn, args, result>>

expVars == <<tokenizer, template, json_template, fs, fsOps, extCalls>>

vars == <<fn, args, result, argv, pc, operation, numbers, invoked, stdout,
          stderr, exitCode, tokenizer, template, json_template, fs, fsOps,
          extCalls>>

NotCalled == [exc |-> "pending", val |-> NaN, msg |-> "", ops |-> 0]

Running == -1

SeqsUpTo(S, n) == UNION {[1..m -> S] : m \in 0..n}

\* A variable of the exporter not assigned yet.
Unset == [set |-> FALSE, val |-> <<>>]

Value(v) == [set |-> TRUE, val |-> v]

\* The exporter does not run.
ExporterIdle ==
    /\ tokenizer = Unset
    /\ template = Unset
    /\ json_template = Unset
    /\ fs = <<>>
    /\ fsOps = <<>>
    /\ extCalls = <<>>

(***************************************************************************)
(* Direct calls of the four functions.                                     *)
(***************************************************************************)
\* The floats handed to the functions in direct calls.
\* float("1e308") and its negation.
Huge == float(<<"1", "e", "3", "0", "8">>).val

NegHuge == FNeg(Huge)

\* -0.0
NegZero == SignedZero(-1)

FloatPool == {Zero, NegZero, Int2Float(5), Int2Float(20), Huge, NegHuge}

InitFn ==
    /\ fn \in Functions
    /\ args \in SeqsUpTo(FloatPool, MaxLen)
    /\ result = NotCalled
    /\ argv = <<>>
    /\ pc = "none"
    /\ operation = <<>>
    /\ numbers = <<>>
    /\ invoked = <<>>
    /\ stdout = <<>>
    /\ stderr = <<>>
    /\ exitCode = Running
    /\ ExporterIdle

\* A direct call fn(*args).
CallFn ==
    /\ result = NotCalled
    /\ result' = Apply(fn, args)
    /\ UNCHANGED <<fn, args, calcVars, stdout, stderr, expVars>>

NextFn == CallFn

SpecFn == InitFn /\ [][NextFn]_vars

(***************************************************************************)
(* The calculator process: python calculator.py <operation> <numbers...>   *)
(***************************************************************************)
ProgName == <<"c", "a", "l", "c", "u", "l", "a", "t", "o", "r", ".", "p", "y">>

\* The selectors tried: the four operations, two of them in another letter
\* case, and an unknown one in two letter cases.
SelectorPool ==
    DOMAIN operations \cup
    { <<"A", "D", "D">>, <<"D", "i", "v", "i", "d", "e">>,
      <<"m", "o", "d", "u", "l", "o">>, <<"M", "o", "d", "u", "l", "o">> }

\* The arguments tried after the selector that float accepts ...
NumericArgs ==
    { <<"0">>, <<"-", "0">>, <<"5">>, <<"2", "0">>, <<"1", "e", "3", "0", "8">>,
      <<"-", "1", "e", "3", "0", "8">>, <<"i", "n", "f">> }

\* ... and that it rejects.
NonNumericArgs == { <<"a", "b", "c">>, <<>>, <<"1", "e">> }

ArgPool == NumericArgs \cup NonNumericArgs

\* float over the arguments tried (a table, so that it is computed once).
FloatOfArg == [s \in ArgPool |-> float(s)]

\* The numbers the arguments tried denote.
NumberPool == {FloatOfArg[s].val : s \in NumericArgs}

\* The calls main can make with them, as an explicit table (the @@ makes it
\* one): the outcome of f(*ns) at <<f, ns>>.
ResultOfCall ==
    [c \in Functions \X SeqsUpTo(NumberPool, MaxArgs) |-> Apply(c[1], c[2])] @@ <<>>

Init ==
    /\ argv \in {<<ProgName>>} \cup
                {<<ProgName, sel>> \o rest :
                    sel \in SelectorPool, rest \in SeqsUpTo(ArgPool, MaxArgs)}
    /\ pc = "check_argc"
    /\ operation = <<>>
    /\ numbers = <<>>
    /\ invoked = <<>>
    /\ stdout = <<>>
    /\ stderr = <<>>
    /\ exitCode = Running
    /\ fn = "add"
    /\ args = <<>>
    /\ result = NotCalled
    /\ ExporterIdle

\* sys.exit(code), or main returning (code 0).
Exit(code) ==
    /\ pc' = "exited"
    /\ exitCode' = code

\* Mutant of CheckArgc: the threshold is 2, so a selector alone passes.
CheckArgc_threshold_two ==
    /\ pc = "check_argc"
    /\ IF Len(argv) < 2
       THEN /\ stdout' = stdout \o
                  << Line("Error: Insufficient arguments"),
                     Line("Usage: python calculator.py <operation> <numbers...>"),
                     Line("Operations: add, subtract, multiply, divide") >>
            /\ Exit(1)
       ELSE /\ pc' = "lower"
            /\ UNCHANGED <<stdout, exitCode>>
    /\ UNCHANGED <<argv, operation, numbers, invoked, stderr, fnVars, expVars>>

\* if len(sys.argv) < 3: print the usage and exit 1
CheckArgc ==
    /\ pc = "check_argc"
    /\ IF Len(argv) < 3
       THEN /\ stdout' = stdout \o
                  << Line("Error: Insufficient arguments"),
                     Line("Usage: python calculator.py <operation> <numbers...>"),
                     Line("Operations: add, subtract, multiply, divide") >>
            /\ Exit(1)
       ELSE /\ pc' = "lower"
            /\ UNCHANGED <<stdout, exitCode>>
    /\ UNCHANGED <<argv, operation, numbers, invoked, stderr, fnVars, expVars>>

\* operation = sys.argv[1].lower()
LowerOperation ==
    /\ pc = "lower"
    /\ operation' = Lower(argv[2])
    /\ pc' = "parse"
    /\ UNCHANGED <<argv, numbers, invoked, stdout, stderr, exitCode, fnVars, expVars>>

\* Mutant of ParseNumbers: a string float rejects is skipped.
ParseNumbers_skips_rejected ==
    /\ pc = "parse"
    /\ LET kept == SelectSeq(SubSeq(argv, 3, Len(argv)),
                             LAMBDA n : FloatOfArg[n].ok)
       IN  numbers' = [i \in 1..Len(kept) |-> FloatOfArg[kept[i]].val]
    /\ pc' = "dispatch"
    /\ UNCHANGED <<argv, operation, invoked, stdout, stderr, exitCode, fnVars,
                   expVars>>

\* [float(n) for n in strs], from index i on, appended to done: the list, or
\* the ValueError of the first string that float rejects.
RECURSIVE FloatEach(_, _, _)
FloatEach(strs, i, done) ==
    IF i > Len(strs) THEN [ok |-> TRUE, vals |-> done, bad |-> <<>>]
    ELSE IF FloatOfArg[strs[i]].ok
         THEN FloatEach(strs, i + 1, Append(done, FloatOfArg[strs[i]].val))
         ELSE [ok |-> FALSE, vals |-> <<>>, bad |-> strs[i]]

\* The effect of the statements at "parse" for the outcome r of the list
\* comprehension.
Parse(r) ==
    IF r.ok
    THEN /\ numbers' = r.vals
         /\ pc' = "dispatch"
         /\ UNCHANGED <<stdout, exitCode>>
    ELSE /\ stdout' = Append(stdout,
               LineS("Error: Invalid number format - ",
                     "could not convert string to float: ", r.bad))
         /\ Exit(1)
         /\ UNCHANGED numbers

\* try: numbers = [float(n) for n in sys.argv[2:]]
\* except ValueError as e: print the message and exit 1
ParseNumbers ==
    /\ pc = "parse"
    /\ Parse(FloatEach(SubSeq(argv, 3, Len(argv)), 1, <<>>))
    /\ UNCHANGED <<argv, operation, invoked, stderr, fnVars, expVars>>

\* if operation not in operations: print the message and exit 1
Dispatch ==
    /\ pc = "dispatch"
    /\ IF operation \notin DOMAIN operations
       THEN /\ stdout' = stdout \o
                  << LineS("Error: Unknown operation ", "", operation),
                     Line("Valid operations: add, subtract, multiply, divide") >>
            /\ Exit(1)
       ELSE /\ pc' = "call"
            /\ UNCHANGED <<stdout, exitCode>>
    /\ UNCHANGED <<argv, operation, numbers, invoked, stderr, fnVars, expVars>>

\* Mutant of Call: the except branch prints the error and does not exit.
Call_error_not_fatal ==
    /\ pc = "call"
    /\ invoked' = Append(invoked, operations[operation])
    /\ LET r == ResultOfCall[<<operations[operation], numbers>>]
       IN  IF r.exc = "none"
           THEN stdout' = Append(stdout, LineN(r.val))
           ELSE stdout' = Append(stdout, LineE("Error: ", r.msg))
    /\ Exit(0)
    /\ UNCHANGED <<argv, operation, numbers, stderr, fnVars, expVars>>

\* try: result = operations[operation](*numbers); print(result)
\* except ValueError as e: print(f"Error: {e}"); sys.exit(1)
\* Any other exception is not caught: the interpreter prints the traceback on
\* the error stream and exits with status 1.
Call ==
    /\ pc = "call"
    /\ invoked' = Append(invoked, operations[operation])
    /\ LET r == ResultOfCall[<<operations[operation], numbers>>]
       IN  IF r.exc = "none"
           THEN /\ stdout' = Append(stdout, LineN(r.val))
                /\ Exit(0)
                /\ UNCHANGED stderr
           ELSE IF r.exc = "ValueError"
           THEN /\ stdout' = Append(stdout, LineE("Error: ", r.msg))
                /\ Exit(1)
                /\ UNCHANGED stderr
           ELSE /\ stderr' = Append(stderr, LineE("Traceback: ", r.exc))
                /\ Exit(1)
                /\ UNCHANGED stdout
    /\ UNCHANGED <<argv, operation, numbers, fnVars, expVars>>

main == CheckArgc \/ LowerOperation \/ ParseNumbers \/ Dispatch \/ Call

Next == main

Spec == Init /\ [][Next]_vars

(***************************************************************************)
(* The template exporter: python generate_inference_model.py               *)
(* The tokenizer library and the file system are its environment: a call   *)
(* of either returns or raises, and the formatter returns any string       *)
(* (here: any sequence of at most MaxTemplateLen of the chunks below).     *)
(***************************************************************************)
model_path == "models/Qwen2.5-1.5B-Instruct"

model_name == "Qwen2.5-1.5B-Instruct"

chat == << [role |-> "system", content |-> "You are a helpful assistant."],
           [role |-> "user", content |-> "{Content}"] >>

\* os.path.join(model_path, "inference_model.json"), as its components
json_file == <<model_path, "inference_model.json">>

\* A file of the model directory that the tokenizer is loaded from.
tokenizer_file == <<model_path, "tokenizer.json">>

Paths == {json_file, tokenizer_file}

TemplateChunks == {"<|im_start|>", "{Content}", "<|im_end|>"}

Renderings == SeqsUpTo(TemplateChunks, MaxTemplateLen)

Absent == [exists |-> FALSE, text |-> Unset, indent |-> 0]

\* A file holding the text json.dump(v, f, indent=i) writes.
JsonText(v, i) == [exists |-> TRUE, text |-> Value(v), indent |-> i]

\* A file that exists and holds no (or not all of the) text.
Truncated == [exists |-> TRUE, text |-> Unset, indent |-> 0]

\* What may be in the model directory before the run.
OldFile == JsonText([Name |-> "old", PromptTemplate |-> [assistant |-> "", prompt |-> <<>>]], 0)

InitExporter ==
    /\ pc = "load"
    /\ tokenizer = Unset
    /\ template = Unset
    /\ json_template = Unset
    /\ fs \in {f \in [Paths -> {Absent, OldFile}] : f[tokenizer_file] = OldFile}
    /\ fsOps = <<>>
    /\ extCalls = <<>>
    /\ stdout = <<>>
    /\ stderr = <<>>
    /\ exitCode = Running
    /\ argv = <<>>
    /\ operation = <<>>
    /\ numbers = <<>>
    /\ invoked = <<>>
    /\ fn = "add"
    /\ args = <<>>
    /\ result = NotCalled

\* An exception nothing catches: the interpreter prints the traceback on the
\* error stream and exits with status 1.
Uncaught(what) ==
    /\ stderr' = Append(stderr, LineE("Traceback: ", what))
    /\ pc' = "exited"
    /\ exitCode' = 1

\* tokenizer = AutoTokenizer.from_pretrained(model_path)
LoadTokenizer ==
    /\ pc = "load"
    /\ extCalls' = Append(extCalls, [f |-> "from_pretrained", path |-> model_path,
                                     messages |-> <<>>, tokenize |-> FALSE,
                                     add_generation_prompt |-> FALSE])
    /\ \/ /\ tokenizer' = Value(<<model_path>>)
          /\ pc' = "render"
          /\ UNCHANGED <<stderr, exitCode>>
       \/ /\ Uncaught("from_pretrained")
          /\ UNCHANGED tokenizer
    /\ UNCHANGED <<template, json_template, fs, fsOps, stdout, fnVars, argv,
                   operation, numbers, invoked>>

\* template = tokenizer.apply_chat_template(chat, tokenize=False,
\*                                          add_generation_prompt=True)
RenderTemplate ==
    /\ pc = "render"
    /\ extCalls' = Append(extCalls, [f |-> "apply_chat_template", path |-> tokenizer.val[1],
                                     messages |-> chat, tokenize |-> FALSE,
                                     add_generation_prompt |-> TRUE])
    /\ \/ \E r \in Renderings :
             /\ template' = Value(r)
             /\ pc' = "build"
             /\ UNCHANGED <<stderr, exitCode>>
       \/ /\ Uncaught("apply_chat_template")
          /\ UNCHANGED template
    /\ UNCHANGED <<tokenizer, json_template, fs, fsOps, stdout, fnVars, argv,
                   operation, numbers, invoked>>

\* Mutant of BuildRecord: the record is named by the model's path.
BuildRecord_named_by_path ==
    /\ pc = "build"
    /\ json_template' = Value([Name |-> model_path,
                               PromptTemplate |-> [assistant |-> "{Content}",
                                                   prompt |-> template.val]])
    /\ pc' = "open"
    /\ UNCHANGED <<tokenizer, template, fs, fsOps, extCalls, stdout, stderr,
                   exitCode, fnVars, argv, operation, numbers, invoked>>

\* json_template = {"Name": ..., "PromptTemplate": {...}}
BuildRecord ==
    /\ pc = "build"
    /\ json_template' = Value([Name |-> model_name,
                               PromptTemplate |-> [assistant |-> "{Content}",
                                                   prompt |-> template.val]])
    /\ pc' = "open"
    /\ UNCHANGED <<tokenizer, template, fs, fsOps, extCalls, stdout, stderr,
                   exitCode, fnVars, argv, operation, numbers, invoked>>

\* with open(json_file, "w") as f: the file is created or emptied, or open raises
OpenFile ==
    /\ pc = "open"
    /\ \/ /\ fs' = [fs EXCEPT ![json_file] = Truncated]
          /\ fsOps' = Append(fsOps, [op |-> "open_w", path |-> json_file])
          /\ pc' = "dump"
          /\ UNCHANGED <<stderr, exitCode>>
       \/ /\ Uncaught("open")
          /\ UNCHANGED <<fs, fsOps>>
    /\ UNCHANGED <<tokenizer, template, json_template, extCalls, stdout, fnVars,
                   argv, operation, numbers, invoked>>

\* json.dump(json_template, f, indent=2), and the file is closed; a failing
\* write leaves the file as far as it was written
DumpJson ==
    /\ pc = "dump"
    /\ fsOps' = Append(fsOps, [op |-> "write", path |-> json_file])
    /\ \/ /\ fs' = [fs EXCEPT ![json_file] = JsonText(json_template.val, 2)]
          /\ pc' = "print_created"
          /\ UNCHANGED <<stderr, exitCode>>
       \/ /\ Uncaught("write")
          /\ UNCHANGED fs
    /\ UNCHANGED <<tokenizer, template, json_template, extCalls, stdout, fnVars,
                   argv, operation, numbers, invoked>>

\* print(f"Created {json_file}")
PrintCreated ==
    /\ pc = "print_created"
    /\ stdout' = Append(stdout, LineS("Created ", "", json_file))
    /\ pc' = "print_template"
    /\ UNCHANGED <<expVars, stderr, exitCode, fnVars, argv, operation, numbers,
                   invoked>>

\* print(f"\nPrompt template:\n{template}"), and the script ends
PrintTemplate ==
    /\ pc = "print_template"
    /\ stdout' = Append(stdout, LineS("\nPrompt template:\n", "", template.val))
    /\ pc' = "exited"
    /\ exitCode' = 0
    /\ UNCHANGED <<expVars, stderr, fnVars, argv, operation, numbers, invoked>>

NextExporter ==
    \/ LoadTokenizer
    \/ RenderTemplate
    \/ BuildRecord
    \/ OpenFile
    \/ DumpJson
    \/ PrintCreated
    \/ PrintTemplate

SpecExporter == InitExporter /\ [][NextExporter]_vars

(***************************************************************************)
(* Vocabulary of the properties.                                           *)
(***************************************************************************)
Called == result # NotCalled

\* ((s[1] op s[2]) op s[3]) op ..., for a non-empty s.
RECURSIVE LeftFold(_, _)
LeftFold(op, s) ==
    IF Len(s) = 1 THEN s[1]
    ELSE BinOp(op, LeftFold(op, SubSeq(s, 1, Len(s) - 1)), s[Len(s)])

\* Python: a == b on numbers.
Equal(a, b) ==
    IF IsZero(a) \/ IsZero(b) THEN IsZero(a) /\ IsZero(b)
    ELSE a.k # "nan" /\ a = b

\* The floating-point sum of s, 0 for the empty sequence.
SumOf(s) == IF Len(s) = 0 THEN Zero ELSE LeftFold("add", s)

\* The sum of the finite floats of s as a real number: its sign and its
\* magnitude in units of 2^MinExp.
RECURSIVE ExactSum(_)
ExactSum(s) ==
    IF Len(s) = 0 THEN [s |-> 1, m |-> <<>>]
    ELSE LET r == ExactSum(Tail(s))
             h == Head(s)
             hm == BShl(h.m, h.x - MinExp)
         IN  IF h.s = r.s THEN [s |-> r.s, m |-> BAdd(hm, r.m)]
             ELSE IF BCmp(hm, r.m) >= 0 THEN [s |-> h.s, m |-> BSub(hm, r.m)]
             ELSE [s |-> r.s, m |-> BSub(r.m, hm)]

\* The arithmetic (real-number) sum of finite floats, as the nearest float.
ArithmeticSum(s) ==
    LET t == ExactSum(s)
    IN  Round(t.s, t.m, MinExp, FALSE)

Reorderings(s) ==
    { [i \in 1..Len(s) |-> s[p[i]]] :
        p \in {q \in [1..Len(s) -> 1..Len(s)] :
                 \A i, j \in 1..Len(s) : q[i] = q[j] => i = j} }

\* Every element is an integer below 2^20 in magnitude: the sums and
\* differences of a few such elements are exact.
SmallIntegers(s) ==
    \A i \in 1..Len(s) :
        /\ s[i].k = "fin"
        /\ \/ Len(s[i].m) = 0
           \/ /\ s[i].x <= 0
              /\ ~BLowNonZero(s[i].m, -s[i].x)
              /\ BBitLen(s[i].m) + s[i].x <= 20

\* The error a printed line reports.
ErrorOf(line) ==
    CASE line.text = "Error: Insufficient arguments" -> "InsufficientArguments"
      [] line.text = "Error: Invalid number format - " -> "InvalidNumberFormat"
      [] line.text = "Error: Unknown operation " -> "UnknownOperation"
      [] line.text = "Error: " /\ line.detail = "Division by zero is not allowed"
           -> "DivisionByZero"
      [] OTHER -> "none"

ErrorLines == {i \in 1..Len(stdout) : ErrorOf(stdout[i]) # "none"}

Reported == {ErrorOf(stdout[i]) : i \in ErrorLines}

\* The lines print(result) wrote.
ResultLines ==
    {i \in 1..Len(stdout) : stdout[i].text = "" /\ stdout[i].detail = ""}

Exited == pc = "exited"

\* The selector as it reads in lower case.
InLowerCase(sel) ==
    CASE sel = <<"A", "D", "D">> -> <<"a", "d", "d">>
      [] sel = <<"D", "i", "v", "i", "d", "e">> -> <<"d", "i", "v", "i", "d", "e">>
      [] sel = <<"M", "o", "d", "u", "l", "o">> -> <<"m", "o", "d", "u", "l", "o">>
      [] OTHER -> sel

OperationNames ==
    { <<"a", "d", "d">>, <<"s", "u", "b", "t", "r", "a", "c", "t">>,
      <<"m", "u", "l", "t", "i", "p", "l", "y">>, <<"d", "i", "v", "i", "d", "e">> }

\* The function of the given name.
FunctionNamed(name) ==
    CASE name = <<"a", "d", "d">> -> "add"
      [] name = <<"s", "u", "b", "t", "r", "a", "c", "t">> -> "subtract"
      [] name = <<"m", "u", "l", "t", "i", "p", "l", "y">> -> "multiply"
      [] name = <<"d", "i", "v", "i", "d", "e">> -> "divide"

\* The four cases in which an invocation fails.
TooFewArguments == Len(argv) < 3

SomeNonNumeric == \E i \in 3..Len(argv) : argv[i] \in NonNumericArgs

AllNumeric == \A i \in 3..Len(argv) : argv[i] \in NumericArgs

Unrecognized == Len(argv) >= 2 /\ InLowerCase(argv[2]) \notin OperationNames

ZeroDivisor ==
    /\ Len(argv) >= 4
    /\ InLowerCase(argv[2]) = <<"d", "i", "v", "i", "d", "e">>
    /\ \E i \in 4..Len(argv) : argv[i] \in {<<"0">>, <<"-", "0">>}

(***************************************************************************)
(* C1: divide raises the division-by-zero error exactly when the sequence  *)
(* has at least two elements and one of index >= 1 (here: >= 2, sequences  *)
(* start at 1) is zero; a zero first element never raises; divide of the   *)
(* empty sequence is 0 and of a one-element sequence that element; and a   *)
(* raising call has performed no division and carries no value.            *)
(***************************************************************************)
C1_DivideZeroCheck ==
    (fn = "divide" /\ Called) =>
        LET zeroDivisor ==
                Len(args) >= 2 /\ \E i \in 2..Len(args) : args[i] \in {Zero, NegZero}
        IN  /\ (result.exc # "none") <=> zeroDivisor
            /\ zeroDivisor =>
                 result = [exc |-> "ValueError", val |-> NaN,
                           msg |-> "Division by zero is not allowed", ops |-> 0]
            /\ Len(args) = 0 => result.val = IntZero
            /\ Len(args) = 1 => result.val = args[1]
            /\ (Len(args) >= 2 /\ ~zeroDivisor) =>
                 /\ result.val = LeftFold("div", args)
                 /\ result.ops = Len(args) - 1

\* divide(0, 20, 5) returns 0: the zero at the first index is no divisor ...
C1_Witness ==
    /\ fn = "divide"
    /\ args = <<Zero, Int2Float(20), Int2Float(5)>>
    /\ result = Return(Zero, 2)

(***************************************************************************)
(* C5: multiply of the empty sequence is 0, multiply of a non-empty        *)
(* sequence is the left fold of the product, and multiply never raises.    *)
(***************************************************************************)
C5_MultiplyFold ==
    (fn = "multiply" /\ Called) =>
        /\ result.exc = "none"
        /\ Len(args) = 0 => result.val = IntZero
        /\ Len(args) >= 1 => result.val = LeftFold("mul", args)

C5_Witness ==
    /\ fn = "multiply"
    /\ args = <<>>
    /\ result.exc = "none"
    /\ result.val = IntZero

(***************************************************************************)
(* C6, as stated: subtract of the empty sequence is 0, of one element that *)
(* element, of more the left fold of the difference, which is the first    *)
(* element minus the sum of the later ones; subtract never raises.         *)
(***************************************************************************)
C6_Original ==
    (fn = "subtract" /\ Called) =>
        /\ result.exc = "none"
        /\ Len(args) = 0 => result.val = IntZero
        /\ Len(args) = 1 => result.val = args[1]
        /\ Len(args) >= 2 =>
             /\ result.val = LeftFold("sub", args)
             /\ Equal(result.val, FSub(args[1], SumOf(Tail(args))))

(***************************************************************************)
(* C6, amended: as above, but the left fold is the first element minus the *)
(* sum of the later ones only when the elements are small integers (every  *)
(* intermediate value is then exact); with elements near the largest float *)
(* the two differ.                                                         *)
(***************************************************************************)
C6_SubtractFold ==
    (fn = "subtract" /\ Called) =>
        /\ result.exc = "none"
        /\ Len(args) = 0 => result.val = IntZero
        /\ Len(args) = 1 => result.val = args[1]
        /\ Len(args) >= 2 =>
             /\ result.val = LeftFold("sub", args)
             /\ SmallIntegers(args) =>
                  Equal(result.val, FSub(args[1], SumOf(Tail(args))))

\* subtract(20, 5, 5) = 10 = (20 - 5) - 5, and not 20 - (5 - 5) = 20
C6_Witness ==
    /\ fn = "subtract"
    /\ args = <<Int2Float(20), Int2Float(5), Int2Float(5)>>
    /\ result = Return(Int2Float(10), 2)

(***************************************************************************)
(* C7, as stated: add returns the arithmetic sum of the elements, the same *)
(* for every permutation of the sequence; add of the empty sequence is 0;  *)
(* add never raises.                                                       *)
(***************************************************************************)
C7_Original ==
    (fn = "add" /\ Called) =>
        /\ result.exc = "none"
        /\ Len(args) = 0 => result.val = IntZero
        /\ Equal(result.val, ArithmeticSum(args))
        /\ \A p \in Reorderings(args) : Equal(add(p).val, result.val)

(***************************************************************************)
(* C7, amended: add returns the arithmetic sum of the elements, the same   *)
(* for every permutation of the sequence, when the elements are small      *)
(* integers; add of the empty sequence is 0; add never raises.             *)
(***************************************************************************)
C7_AddSum ==
    (fn = "add" /\ Called) =>
        /\ result.exc = "none"
        /\ Len(args) = 0 => result.val = IntZero
        /\ SmallIntegers(args) =>
             /\ Equal(result.val, ArithmeticSum(args))
             /\ \A p \in Reorderings(args) : Equal(add(p).val, result.val)

C7_Witness ==
    /\ fn = "add"
    /\ args = <<Int2Float(5), Int2Float(20), Int2Float(5)>>
    /\ result = Return(Int2Float(30), 3)

(***************************************************************************)
(* C2, as stated: a selector that is not one of add, subtract, multiply,   *)
(* divide fails with UnknownOperation whatever numeric arguments follow    *)
(* (any number of them) and no function is invoked; a selector that is one *)
(* of the four invokes exactly the function of that name, once.            *)
(***************************************************************************)
C2_Original ==
    (Exited /\ Len(argv) >= 2 /\ AllNumeric) =>
        IF argv[2] \notin OperationNames
        THEN Reported = {"UnknownOperation"} /\ invoked = <<>>
        ELSE invoked = <<FunctionNamed(argv[2])>>

(***************************************************************************)
(* C2, amended: when at least one argument follows the selector and all    *)
(* of them are numeric, a selector that in lower case is not one of the    *)
(* four names fails with UnknownOperation and no function is invoked, and  *)
(* a selector that in lower case is one of them invokes exactly the        *)
(* function of that name, once.                                            *)
(***************************************************************************)
C2_Dispatch ==
    /\ Unrecognized => invoked = <<>>
    /\ (Exited /\ Len(argv) >= 3 /\ AllNumeric) =>
          IF InLowerCase(argv[2]) \notin OperationNames
          THEN Reported = {"UnknownOperation"} /\ exitCode = 1
          ELSE invoked = <<FunctionNamed(InLowerCase(argv[2]))>>

\* "modulo 1e308 0" is rejected as an unknown operation
C2_Witness ==
    /\ Exited
    /\ argv = <<ProgName, <<"m", "o", "d", "u", "l", "o">>,
                <<"1", "e", "3", "0", "8">>, <<"0">> >>
    /\ Reported = {"UnknownOperation"}
    /\ invoked = <<>>

(***************************************************************************)
(* C3: when an argument after the selector is not numeric, no function is  *)
(* ever invoked and no result is ever printed, and the invocation ends     *)
(* with InvalidNumberFormat, whatever the selector and the other arguments.*)
(***************************************************************************)
C3_InvalidNumberFirst ==
    SomeNonNumeric =>
        /\ invoked = <<>>
        /\ ResultLines = {}
        /\ Exited => (Reported = {"InvalidNumberFormat"} /\ exitCode = 1)

\* "add 5 abc"
C3_Witness ==
    /\ Exited
    /\ argv = <<ProgName, k_add, <<"5">>, <<"a", "b", "c">> >>
    /\ Reported = {"InvalidNumberFormat"}
    /\ exitCode = 1

(***************************************************************************)
(* C4: an invocation runs until it exits and then does nothing more; it    *)
(* exits either with code 0, having printed one result and nothing else,   *)
(* or with code 1, having reported exactly one of the four errors and no   *)
(* result; and code 1 occurs in the four failure cases and only in them.   *)
(***************************************************************************)
C4_OneOutcome ==
    /\ ~Exited => (exitCode = Running /\ ENABLED main)
    /\ Exited =>
         /\ ~ENABLED main
         /\ stderr = <<>>
         /\ \/ /\ exitCode = 0
               /\ Len(stdout) = 1
               /\ ResultLines = {1}
            \/ /\ exitCode = 1
               /\ Cardinality(ErrorLines) = 1
               /\ Reported \subseteq {"InsufficientArguments", "InvalidNumberFormat",
                                      "UnknownOperation", "DivisionByZero"}
               /\ ResultLines = {}
         /\ (exitCode = 1) <=>
               (TooFewArguments \/ SomeNonNumeric \/ Unrecognized \/ ZeroDivisor)

\* "divide 20 0"
C4_Witness ==
    /\ Exited
    /\ argv = <<ProgName, k_divide, <<"2", "0">>, <<"0">> >>
    /\ exitCode = 1
    /\ Reported = {"DivisionByZero"}
    /\ invoked = <<"divide">>

(***************************************************************************)
(* C9: the checks run in the order InsufficientArguments,                  *)
(* InvalidNumberFormat, UnknownOperation, DivisionByZero, and an           *)
(* invocation reports only the first fault in this order.                  *)
(***************************************************************************)
C9_CheckOrder ==
    Exited =>
        Reported =
            IF TooFewArguments THEN {"InsufficientArguments"}
            ELSE IF SomeNonNumeric THEN {"InvalidNumberFormat"}
            ELSE IF Unrecognized THEN {"UnknownOperation"}
            ELSE IF ZeroDivisor THEN {"DivisionByZero"}
            ELSE {}

\* "modulo abc 0": unknown selector, non-numeric argument and zero divisor
C9_Witness ==
    /\ Exited
    /\ argv = <<ProgName, <<"m", "o", "d", "u", "l", "o">>,
                <<"a", "b", "c">>, <<"0">> >>
    /\ Reported = {"InvalidNumberFormat"}

(***************************************************************************)
(* C10: the selector is lower-cased before dispatch: a selector that       *)
(* differs from an operation name only in letter case is dispatched to     *)
(* that function and not rejected, and the UnknownOperation message shows  *)
(* the selector in lower case, not as typed.                               *)
(***************************************************************************)
C10_CaseInsensitive ==
    (Exited /\ Len(argv) >= 3 /\ AllNumeric) =>
        /\ InLowerCase(argv[2]) \in OperationNames =>
             /\ invoked = <<FunctionNamed(InLowerCase(argv[2]))>>
             /\ "UnknownOperation" \notin Reported
        /\ InLowerCase(argv[2]) \notin OperationNames =>
             \E i \in 1..Len(stdout) :
                /\ ErrorOf(stdout[i]) = "UnknownOperation"
                /\ stdout[i].str = InLowerCase(argv[2])

\* "ADD 5 20" prints 25
C10_Witness ==
    /\ Exited
    /\ argv = <<ProgName, <<"A", "D", "D">>, <<"5">>, <<"2", "0">> >>
    /\ invoked = <<"add">>
    /\ stdout = <<LineN(Int2Float(25))>>
    /\ exitCode = 0

(***************************************************************************)
(* C8: the exporter touches no file but inference_model.json and writes it *)
(* at most once, only after the formatter has returned the rendering of    *)
(* the fixed two-message chat (tokenize false, generation prompt true); if *)
(* loading the tokenizer or the formatter fails, the failure is uncaught,  *)
(* no file is opened or written and nothing is printed; after a successful *)
(* run the file holds the fixed name, the placeholder as the assistant     *)
(* field and the formatter's output as the prompt field; the confirmation  *)
(* line is printed only after the file has been written.                   *)
(***************************************************************************)
C8_Exporter ==
    LET writes == {i \in 1..Len(fsOps) : fsOps[i].op = "write"}
        rendered ==
            [f |-> "apply_chat_template", path |-> "models/Qwen2.5-1.5B-Instruct",
             messages |-> << [role |-> "system",
                              content |-> "You are a helpful assistant."],
                             [role |-> "user", content |-> "{Content}"] >>,
             tokenize |-> FALSE, add_generation_prompt |-> TRUE]
    IN  /\ \A i \in 1..Len(fsOps) : fsOps[i].path = json_file
        /\ fs[tokenizer_file] = OldFile
        /\ Cardinality(writes) <= 1
        /\ fsOps # <<>> =>
             /\ template.set
             /\ \E i \in 1..Len(extCalls) : extCalls[i] = rendered
        /\ (Exited /\ ~template.set) =>
             /\ fsOps = <<>>
             /\ stdout = <<>>
             /\ exitCode = 1
             /\ Len(stderr) = 1
             /\ stderr[1].detail \in {"from_pretrained", "apply_chat_template"}
        /\ (Exited /\ exitCode = 0) =>
             /\ fs[json_file] =
                  JsonText([Name |-> "Qwen2.5-1.5B-Instruct",
                            PromptTemplate |-> [assistant |-> "{Content}",
                                                prompt |-> template.val]], 2)
             /\ stderr = <<>>
        /\ (\E i \in 1..Len(stdout) : stdout[i].text = "Created ") =>
             /\ writes # {}
             /\ fs[json_file].text.set

\* a successful run over a file that existed before
C8_Witness ==
    /\ Exited
    /\ exitCode = 0
    /\ template = Value(<<"<|im_start|>", "{Content}", "<|im_end|>">>)
    /\ fsOps = << [op |-> "open_w", path |-> json_file],
                  [op |-> "write", path |-> json_file] >>
    /\ Len(stdout) = 2

====
